---- MODULE Spec2Model ----
(***************************************************************************)
(* setup-kubesolo: the setup run (disable container runtimes, install      *)
(* KubeSolo, wait for the cluster) of the TypeScript action (src/main.ts)  *)
(* and of the bash action (setup.sh), as one state machine.  Every         *)
(* external command is one step; its exit code is an input of the step.    *)
(***************************************************************************)
EXTENDS Integers, Sequences, FiniteSets, TLC

\* ------------------------------------------------------------------ bounds
\* Largest extra delay, in whole seconds, that one poll iteration adds to its sleep.
MaxDrift == 1
\* The poller's sleep is modelled while at most this many seconds have passed (only a
\* poller whose timeout comparison is never true sleeps beyond its timeout).
MaxClock == 15
\* How many non-zero exits of commands whose exit code is ignored one run explores.
MaxIgnoredFailures == 1

\* ------------------------------------------------------- program constants
SleepSeconds == 5
DefaultTimeout == 60

Variants == {"ts", "sh"}
KubeconfigPath == "/var/lib/kubesolo/pki/admin/admin.kubeconfig"

\* ----------------------------------------------------------- timeout input
\* The timeout input, a string, as its sequence of characters (the empty
\* input, which reads as the default, is not among the inputs explored).
TimeoutInputs ==
  { <<"0">>, <<"7">>, <<"1", "0">>, <<"-", "1">>, <<"7", "x">>, <<"a", "b", "c">> }

DigitChars == {"0", "1", "2", "3", "4", "5", "6", "7", "8", "9"}

DigitVal(c) ==
  CASE c = "0" -> 0 [] c = "1" -> 1 [] c = "2" -> 2 [] c = "3" -> 3 [] c = "4" -> 4
    [] c = "5" -> 5 [] c = "6" -> 6 [] c = "7" -> 7 [] c = "8" -> 8 [] c = "9" -> 9

\* The number of leading decimal digits of s.
RECURSIVE LeadingDigits(_)
LeadingDigits(s) ==
  IF s = <<>> \/ Head(s) \notin DigitChars THEN 0 ELSE 1 + LeadingDigits(Tail(s))

\* The value of a sequence of decimal digits.
RECURSIVE DecimalValue(_)
DecimalValue(s) ==
  IF s = <<>> THEN 0 ELSE 10 * DecimalValue(SubSeq(s, 1, Len(s) - 1)) + DigitVal(s[Len(s)])

NaN == [nan |-> TRUE, val |-> 0]
Num(n) == [nan |-> FALSE, val |-> n]

\* JavaScript parseInt(s, 10): an optional sign, then the longest run of
\* digits; what follows is ignored; no digit at all gives NaN.
ParseInt(s) ==
  LET signed == s # <<>> /\ Head(s) \in {"-", "+"}
      body == IF signed THEN Tail(s) ELSE s
      n == LeadingDigits(body)
      v == DecimalValue(SubSeq(body, 1, n))
  IN IF n = 0 THEN NaN
     ELSE IF signed /\ Head(s) = "-" THEN Num(0 - v) ELSE Num(v)

\* The operand of bash's [ a -gt b ]: the whole string must be an integer,
\* otherwise the test is an error and the condition is false.
TestInteger(s) ==
  LET signed == s # <<>> /\ Head(s) \in {"-", "+"}
      body == IF signed THEN Tail(s) ELSE s
      n == LeadingDigits(body)
      v == DecimalValue(body)
  IN IF n = 0 \/ n # Len(body) THEN NaN
     ELSE IF signed /\ Head(s) = "-" THEN Num(0 - v) ELSE Num(v)

\* main.ts: parseInt(core.getInput('timeout') || '60', 10)
\* setup.sh: TIMEOUT="${INPUT_TIMEOUT:-60}", compared with [ -gt ]
ReadTimeout(v, s) ==
  IF s = <<>> THEN Num(DefaultTimeout)
  ELSE IF v = "ts" THEN ParseInt(s) ELSE TestInteger(s)

\* The comparison as "greater or equal".
TimedOutAtBoundary(e, t) == ~t.nan /\ e >= t.val
\* The comparison one sleep late.
TimedOutLate(e, t) == ~t.nan /\ e > t.val + SleepSeconds

\* elapsed > timeoutSeconds  /  [ "$ELAPSED" -gt "$TIMEOUT" ]
TimedOut(e, t) == ~t.nan /\ e > t.val

\* ------------------------------------------------------------------- host
Services == {"docker.socket", "docker", "containerd", "podman"}
ServiceOrder == <<"docker.socket", "docker", "containerd", "podman">>
BinaryOrder ==
  <<"docker", "dockerd", "containerd", "containerd-shim", "containerd-shim-runc-v2",
    "runc", "podman">>
Binaries == {BinaryOrder[i] : i \in 1..Len(BinaryOrder)}

Tarball == "/tmp/kubesolo.tar.gz"
TmpBinary == "/tmp/kubesolo"
KubesoloBinary == "/usr/local/bin/kubesolo"
DataDir == "/var/lib/kubesolo"
UnitFile == "/etc/systemd/system/kubesolo.service"
CniBin == "/opt/cni/bin"
RuntimeData == {"/var/lib/docker", "/var/lib/containerd"}
RuntimeSockets == {"/var/run/docker.sock", "/var/run/containerd/containerd.sock"}

\* The hosts a run starts on: a clean runner, and a runner with Docker installed.
\* units: the runtime services systemd has a unit for.
HostProfiles ==
  { [active |-> {}, units |-> {}, bins |-> {}, files |-> {}],
    [active |-> {"docker"}, units |-> {"docker.socket", "docker"},
     bins |-> {"docker", "runc"},
     files |-> {"/var/lib/docker", "/var/run/docker.sock", CniBin}] }

VersionInputs == {"latest", "v1.0.0"}
\* What the release lookup prints: a tag, or nothing.
LookupOutputs == {"", "v1.1.0"}
\* What uname -m prints.
Machines == {"x86_64", "aarch64", "arm64", "armv7l", "riscv64"}
ExitCodes == {0, 1}

VARIABLES
  variant,       \* "ts": src/main.ts, "sh": setup.sh
  versionInput,  \* the version input
  waitForReady,  \* the wait-for-ready input is "true"
  timeout,       \* the timeout as the program reads it
  pc,            \* the position of the run
  step,          \* the index of the next command of the current chain
  issued,        \* the commands issued so far, in order, and what the diagnostics logged
  lastExit,      \* the exit code of the last of them
  failedCmd,     \* the command whose non-zero exit ended the run, or "none"
  error,         \* the error that ended the run, or "none"
  ignored,       \* how many non-zero exits have been ignored so far
  handoff,       \* core.saveState('isPost', 'true') has run
  active,        \* the runtime services that are running
  masked,        \* the runtime services that are masked
  binPresent,    \* the runtime binaries present at /usr/bin/<name>
  bakPresent,    \* the runtime binaries present at /usr/bin/<name>.bak
  files,         \* the other paths that exist, among those the run touches
  svc,           \* the kubesolo unit: loaded by systemd, enabled, started
  actualVersion, \* the resolved version
  arch,          \* the output of uname -m
  binaryArch,    \* the architecture token of the download
  outputs,       \* the published kubeconfig output and KUBECONFIG export
  now,           \* whole seconds since the poller took its start time
  elapsed,       \* elapsed, as computed at the start of the current iteration (-1: none yet)
  iter,          \* the checks of the current iteration, in order, with results
  everActive,    \* some is-active check of the poller has returned 0
  diagCalls,     \* how many times the diagnostics have been dumped
  before,        \* the host the job started on
  reinstalled,   \* the runtime binaries the workflow body has put back in /usr/bin
  thrown,        \* the function of cleanup.ts an exception escaped from, or "none"
  postResult,    \* how the post-run phase ended, or "none"
  unrestored,    \* the binaries whose restoring mv has not exited 0
  unremoved,     \* the paths whose rm -rf in the cleanup has not exited 0
  snap           \* the binaries as a repeated call found them

host == <<active, masked, binPresent, bakPresent, files, svc>>
inputs == <<variant, versionInput, waitForReady, timeout>>
install == <<actualVersion, arch, binaryArch>>
poller == <<now, elapsed, iter, everActive, diagCalls>>
control == <<pc, step, issued, lastExit, failedCmd, error, ignored, handoff, outputs>>
post == <<before, reinstalled, thrown, postResult, unrestored, unremoved, snap>>
vars == <<inputs, control, host, install, poller, post>>

\* --------------------------------------------------------------- commands
\* One external command: its name, its argument, and whether its exit code is
\* ignored (ignoreReturnCode: true in main.ts, "|| true" in setup.sh).
Cmd(n, a, ig) == [name |-> n, arg |-> a, ignore |-> ig]

\* f(s[1]) \o f(s[2]) \o ... for a sequence s and f giving sequences.
RECURSIVE FlatMap(_, _)
FlatMap(f(_), s) == IF s = <<>> THEN <<>> ELSE f(Head(s)) \o FlatMap(f, Tail(s))

StopAndMask(service) ==
  << Cmd("stop", {service}, TRUE), Cmd("mask", {service}, TRUE) >>
BackupTs(binary) == << Cmd("backup", binary, TRUE) >>
BackupSh(binary) == << Cmd("backup", binary, FALSE) >>
IptablesSh(i) == << Cmd("iptables", i, TRUE) >>
\* The iptables commands of setup.sh, lines 38 to 56, numbered in order.
IptablesCount == 19

\* disableContainerRuntimes of main.ts
DisableChainTs ==
  FlatMap(StopAndMask, ServiceOrder)
    \o FlatMap(BackupTs, BinaryOrder)
    \o << Cmd("rm_sockets", {"/var/run/containerd/containerd.sock"}, TRUE) >>

\* Lines 10 to 56 of setup.sh
DisableChainSh ==
  << Cmd("stop", Services, TRUE), Cmd("disable", Services, TRUE),
     Cmd("pkill", {"docker"}, TRUE), Cmd("pkill", {"containerd"}, TRUE),
     Cmd("pkill", {"podman"}, TRUE) >>
    \o FlatMap(BackupSh, BinaryOrder)
    \o << Cmd("rm_data", RuntimeData, FALSE), Cmd("rm_sockets", RuntimeSockets, FALSE),
          Cmd("ip_link", "down", TRUE), Cmd("ip_link", "delete", TRUE) >>
    \o FlatMap(IptablesSh, [i \in 1..IptablesCount |-> i])

DisableChain(v) == IF v = "ts" THEN DisableChainTs ELSE DisableChainSh

\* The unit file written before the binary is moved and the data directory made.
InstallChainTsUnitFirst ==
  << Cmd("download", Tarball, FALSE), Cmd("extract", Tarball, FALSE),
     Cmd("write_unit", UnitFile, FALSE),
     Cmd("mv_binary", KubesoloBinary, FALSE), Cmd("chmod_x", KubesoloBinary, FALSE),
     Cmd("mkdir_data", DataDir, FALSE),
     Cmd("daemon_reload", "", FALSE), Cmd("enable", "kubesolo", FALSE),
     Cmd("start", "kubesolo", FALSE), Cmd("rm_tarball", Tarball, FALSE),
     Cmd("chmod_kubeconfig", KubeconfigPath, TRUE) >>

\* installKubeSolo of main.ts from the download on
InstallChainTs ==
  << Cmd("download", Tarball, FALSE), Cmd("extract", Tarball, FALSE),
     Cmd("mv_binary", KubesoloBinary, FALSE), Cmd("chmod_x", KubesoloBinary, FALSE),
     Cmd("mkdir_data", DataDir, FALSE), Cmd("write_unit", UnitFile, FALSE),
     Cmd("daemon_reload", "", FALSE), Cmd("enable", "kubesolo", FALSE),
     Cmd("start", "kubesolo", FALSE), Cmd("rm_tarball", Tarball, FALSE),
     Cmd("chmod_kubeconfig", KubeconfigPath, TRUE) >>

\* Lines 104 to 164 of setup.sh
InstallChainSh ==
  << Cmd("download", Tarball, FALSE), Cmd("extract", Tarball, FALSE),
     Cmd("mv_binary", KubesoloBinary, FALSE), Cmd("chmod_x", KubesoloBinary, FALSE),
     Cmd("mkdir_data", DataDir, FALSE), Cmd("rm_cni", CniBin, FALSE),
     Cmd("write_unit", UnitFile, FALSE),
     Cmd("daemon_reload", "", FALSE), Cmd("enable", "kubesolo", FALSE),
     Cmd("start", "kubesolo", FALSE), Cmd("rm_tarball", Tarball, FALSE),
     Cmd("chmod_kubeconfig", KubeconfigPath, TRUE) >>

\* The service started as the first step of the install.
InstallChainStartEarly(v) ==
  << Cmd("start", "kubesolo", FALSE) >> \o (IF v = "ts" THEN InstallChainTs ELSE InstallChainSh)

InstallChain(v) == IF v = "ts" THEN InstallChainTs ELSE InstallChainSh

\* Whether the program issues the command at all: the backup of a binary is
\* guarded by fs.access / [ -f ], the CNI removal by [ -d ].
\* The restore issued without the fs.access test of the backup.
GuardedRestoreAlways(c) ==
  CASE c.name = "backup" -> c.arg \in binPresent
    [] c.name = "rm_cni" -> CniBin \in files
    [] c.name \in {"svc_stop", "svc_disable", "verify"} -> lastExit = 0
    [] OTHER -> TRUE

\* The removal of a path issued only once the service is no longer running.
GuardedRemovalNeedsStopped(c) ==
  CASE c.name = "backup" -> c.arg \in binPresent
    [] c.name = "rm_cni" -> CniBin \in files
    [] c.name = "restore" -> c.arg \in bakPresent
    [] c.name \in {"svc_stop", "svc_disable", "verify"} -> lastExit = 0
    [] c.name = "rm_path" -> ~svc.started
    [] OTHER -> TRUE

\* In cleanup.ts the restore of a binary is guarded by fs.access of its backup;
\* stop, disable and the is-active verification by the exit code of the query
\* issued just before.
Guarded(c) ==
  CASE c.name = "backup" -> c.arg \in binPresent
    [] c.name = "rm_cni" -> CniBin \in files
    [] c.name = "restore" -> c.arg \in bakPresent
    [] c.name \in {"svc_stop", "svc_disable", "verify"} -> lastExit = 0
    [] OTHER -> TRUE

\* The download with its exit code ignored.
AbortsButDownload(c) == ~c.ignore /\ c.name # "download"

\* Whether a non-zero exit of the command ends the run: exec.exec rejects
\* unless ignoreReturnCode is set; set -e exits unless "|| true" follows.
Aborts(c) == ~c.ignore

\* A backup that copies the binary and leaves the original in place.
RenamedKeepsOriginal(h, b) == [h EXCEPT !.bakPresent = @ \cup {b}]

\* The host h after mv /usr/bin/b /usr/bin/b.bak
Renamed(h, b) == [h EXCEPT !.binPresent = @ \ {b}, !.bakPresent = @ \cup {b}]

\* The paths of the model that rm -rf of a path removes.
Under(path) == IF path = "/opt/cni" THEN {path, CniBin} ELSE {path}

\* The host after the command has exited 0.
HostAfter(c) ==
  LET h == [active |-> active, masked |-> masked, binPresent |-> binPresent,
            bakPresent |-> bakPresent, files |-> files, svc |-> svc]
  IN CASE c.name \in {"stop", "pkill"} -> [h EXCEPT !.active = @ \ c.arg]
       [] c.name = "mask" -> [h EXCEPT !.masked = @ \cup c.arg]
       [] c.name = "backup" -> Renamed(h, c.arg)
       [] c.name \in {"rm_data", "rm_sockets", "rm_cni", "rm_tarball"} ->
            [h EXCEPT !.files = @ \ (IF c.name \in {"rm_cni", "rm_tarball"}
                                     THEN {c.arg} ELSE c.arg)]
       [] c.name = "download" -> [h EXCEPT !.files = @ \cup {Tarball}]
       [] c.name = "extract" -> [h EXCEPT !.files = @ \cup {TmpBinary}]
       [] c.name = "mv_binary" ->
            [h EXCEPT !.files = (@ \ {TmpBinary}) \cup {KubesoloBinary}]
       [] c.name = "mkdir_data" -> [h EXCEPT !.files = @ \cup {DataDir}]
       [] c.name = "write_unit" -> [h EXCEPT !.files = @ \cup {UnitFile}]
       [] c.name = "daemon_reload" -> [h EXCEPT !.svc.loaded = UnitFile \in files]
       [] c.name = "enable" -> [h EXCEPT !.svc.enabled = TRUE]
       [] c.name = "start" -> [h EXCEPT !.svc.started = TRUE]
       [] c.name \in {"svc_stop", "svc_kill"} -> [h EXCEPT !.svc.started = FALSE]
       [] c.name = "svc_disable" -> [h EXCEPT !.svc.enabled = FALSE]
       [] c.name = "rm_path" -> [h EXCEPT !.files = @ \ Under(c.arg)]
       [] c.name = "restore" ->
            [h EXCEPT !.bakPresent = @ \ {c.arg}, !.binPresent = @ \cup {c.arg}]
       [] c.name = "unmask" -> [h EXCEPT !.masked = @ \ {c.arg}]
       [] c.name = "start_runtime" -> [h EXCEPT !.active = @ \cup {c.arg}]
       [] OTHER -> h

\* No repeated call has been made.
NoSnap == [fn |-> "none", bins |-> {}, baks |-> {}, n |-> 0]

SetHost(h) ==
  /\ active' = h.active
  /\ masked' = h.masked
  /\ binPresent' = h.binPresent
  /\ bakPresent' = h.bakPresent
  /\ files' = h.files
  /\ svc' = h.svc

\* ------------------------------------------------------------------- Init
Init ==
  /\ variant \in Variants
  /\ versionInput \in VersionInputs
  /\ waitForReady \in BOOLEAN
  /\ \E s \in TimeoutInputs : timeout = ReadTimeout(variant, s)
  /\ \E h \in HostProfiles :
       /\ active = h.active
       /\ binPresent = h.bins
       /\ files = h.files
       /\ before = h
  /\ masked = {}
  /\ bakPresent = {}
  /\ svc = [loaded |-> FALSE, enabled |-> FALSE, started |-> FALSE]
  /\ pc = "start"
  /\ step = 1
  /\ issued = <<>>
  /\ lastExit = 0
  /\ failedCmd = "none"
  /\ error = "none"
  /\ ignored = 0
  /\ handoff = FALSE
  /\ actualVersion = ""
  /\ arch = ""
  /\ binaryArch = ""
  /\ outputs = [output |-> "", env |-> ""]
  /\ now = 0
  /\ elapsed = -1
  /\ iter = <<>>
  /\ everActive = FALSE
  /\ diagCalls = 0
  /\ reinstalled = {}
  /\ thrown = "none"
  /\ postResult = "none"
  /\ unrestored = {}
  /\ unremoved = {}
  /\ snap = NoSnap

\* ------------------------------------------------------------------- main
\* main() never saving the post-run state.
SavesStateNever(v) == FALSE

\* main.ts saves the post-run state first; setup.sh has no post-run phase.
SavesState(v) == v = "ts"

MainStart ==
  /\ pc = "start"
  /\ handoff' = SavesState(variant)
  /\ pc' = "disable"
  /\ step' = 1
  /\ UNCHANGED <<inputs, post, issued, lastExit, failedCmd, error, ignored, outputs, host,
                 install, poller>>

\* One command of a chain: skipped when its guard is false, otherwise issued;
\* a non-zero exit either ends the run or is ignored.
ChainStep(chain, nextPc) ==
  LET c == chain[step]
      last == step = Len(chain)
      advance == /\ pc' = (IF last THEN nextPc ELSE pc)
                 /\ step' = (IF last THEN 1 ELSE step + 1)
  IN IF ~Guarded(c)
     THEN /\ advance
          /\ UNCHANGED <<issued, lastExit, failedCmd, error, ignored, host>>
     ELSE \E code \in ExitCodes :
            /\ issued' = Append(issued, c.name)
            /\ lastExit' = code
            /\ IF code # 0 /\ Aborts(c)
               THEN /\ pc' = "failed"
                    /\ failedCmd' = c.name
                    /\ error' = "command failed"
                    /\ UNCHANGED <<step, ignored, host>>
               ELSE /\ code # 0 => ignored < MaxIgnoredFailures
                    /\ ignored' = (IF code # 0 THEN ignored + 1 ELSE ignored)
                    /\ SetHost(IF code = 0 THEN HostAfter(c) ELSE HostAfter(Cmd("none", "", TRUE)))
                    /\ advance
                    /\ UNCHANGED <<failedCmd, error>>

DisableStep ==
  /\ pc = "disable"
  /\ ChainStep(DisableChain(variant), "resolve")
  /\ UNCHANGED <<inputs, post, handoff, outputs, install, poller>>

\* setup.sh exits when the lookup printed nothing; main.ts has no such test.
VersionRejected(v, out) == v = "sh" /\ out = ""

ResolveVersion ==
  /\ pc = "resolve"
  /\ IF versionInput = "latest"
     THEN \E code \in ExitCodes, out \in LookupOutputs :
            /\ issued' = Append(issued, "lookup")
            /\ lastExit' = code
            /\ IF code # 0
               THEN /\ pc' = "failed"
                    /\ failedCmd' = "lookup"
                    /\ error' = "command failed"
                    /\ UNCHANGED actualVersion
               ELSE /\ actualVersion' = out
                    /\ pc' = (IF VersionRejected(variant, out) THEN "failed" ELSE "uname")
                    /\ error' = (IF VersionRejected(variant, out)
                                 THEN "version not resolved" ELSE error)
                    /\ UNCHANGED failedCmd
     ELSE /\ actualVersion' = versionInput
          /\ pc' = "uname"
          /\ UNCHANGED <<issued, lastExit, failedCmd, error>>
  /\ UNCHANGED <<inputs, post, step, ignored, handoff, outputs, host, arch, binaryArch, poller>>

DetectArch ==
  /\ pc = "uname"
  /\ \E code \in ExitCodes, m \in Machines :
       /\ issued' = Append(issued, "uname")
       /\ lastExit' = code
       /\ IF code # 0
          THEN /\ pc' = "failed"
               /\ failedCmd' = "uname"
               /\ error' = "command failed"
               /\ UNCHANGED arch
          ELSE /\ arch' = m
               /\ pc' = "maparch"
               /\ UNCHANGED <<failedCmd, error>>
  /\ UNCHANGED <<inputs, post, step, ignored, handoff, outputs, host, actualVersion, binaryArch, poller>>

\* The mapping with a default branch that falls back to amd64.
BinaryArchDefaultAmd64(v, m) ==
  CASE m = "x86_64" -> "amd64"
    [] m = "aarch64" -> "arm64"
    [] m = "arm64" /\ v = "sh" -> "arm64"
    [] m = "armv7l" -> "arm"
    [] OTHER -> "amd64"

\* The switch of main.ts and the case of setup.sh.
BinaryArch(v, m) ==
  CASE m = "x86_64" -> "amd64"
    [] m = "aarch64" -> "arm64"
    [] m = "arm64" /\ v = "sh" -> "arm64"
    [] m = "armv7l" -> "arm"
    [] OTHER -> "unsupported"

MapArch ==
  /\ pc = "maparch"
  /\ LET b == BinaryArch(variant, arch)
     IN IF b = "unsupported"
        THEN /\ pc' = "failed"
             /\ error' = "unsupported architecture"
             /\ UNCHANGED binaryArch
        ELSE /\ binaryArch' = b
             /\ pc' = "install"
             /\ UNCHANGED error
  /\ step' = 1
  /\ UNCHANGED <<inputs, post, issued, lastExit, failedCmd, ignored, handoff, outputs, host,
                 actualVersion, arch, poller>>

InstallStep ==
  /\ pc = "install"
  /\ ChainStep(InstallChain(variant), "publish")
  /\ UNCHANGED <<inputs, post, handoff, outputs, install, poller>>

\* The output set and the environment variable left out.
PublishedOutputOnly == [output |-> KubeconfigPath, env |-> ""]

\* What the run publishes: the kubeconfig output and the KUBECONFIG variable.
Published == [output |-> KubeconfigPath, env |-> KubeconfigPath]

\* core.setOutput / core.exportVariable; >> $GITHUB_OUTPUT / $GITHUB_ENV
\* A main that waits for the cluster whatever the input says.
AfterPublishAlwaysWaits(w) == "wait"

\* if (waitForReady) { await waitForClusterReady(timeout) }  /
\* if [ "$WAIT_FOR_READY" = "true" ]
AfterPublish(w) == IF w THEN "wait" ELSE "done"

Publish ==
  /\ pc = "publish"
  /\ outputs' = Published
  /\ pc' = AfterPublish(waitForReady)
  /\ UNCHANGED <<inputs, post, step, issued, lastExit, failedCmd, error, ignored, handoff, host,
                 install, poller>>

\* ----------------------------------------------------------------- poller
Stages == <<"ServiceActive", "PortListening", "CredentialFilePresent", "ApiReachable",
            "NodeReady">>

\* const startTime = Date.now()  /  START_TIME=$(date +%s)
WaitStart ==
  /\ pc = "wait"
  /\ now' = 0
  /\ pc' = "loop"
  /\ UNCHANGED <<inputs, post, step, issued, lastExit, failedCmd, error, ignored, handoff, outputs,
                 host, install, elapsed, iter, everActive, diagCalls>>

\* The head of the loop: elapsed is computed and compared with the timeout.
LoopHead ==
  /\ pc = "loop"
  /\ elapsed' = now
  /\ iter' = <<>>
  /\ pc' = (IF TimedOut(now, timeout) THEN "timeout" ELSE "check_service")
  /\ UNCHANGED <<inputs, post, step, issued, lastExit, failedCmd, error, ignored, handoff, outputs,
                 host, install, now, everActive, diagCalls>>

\* The loop body with the port check not gating the checks after it.
AfterCheckPortUngated(stage, ok) ==
  CASE stage = "ServiceActive" -> IF ok THEN "check_port" ELSE "sleep"
    [] stage = "PortListening" -> "check_file"
    [] stage = "CredentialFilePresent" -> IF ok THEN "chmod" ELSE "sleep"
    [] stage = "Chmod644" -> "check_api"
    [] stage = "ApiReachable" -> IF ok THEN "check_node" ELSE "sleep"
    [] stage = "NodeReady" -> IF ok THEN "ready" ELSE "sleep"

\* The loop body leaving the loop as soon as kubectl connects.
AfterCheckNoNodeCheck(stage, ok) ==
  IF ~ok THEN "sleep"
  ELSE CASE stage = "ServiceActive" -> "check_port"
         [] stage = "PortListening" -> "check_file"
         [] stage = "CredentialFilePresent" -> "chmod"
         [] stage = "Chmod644" -> "check_api"
         [] stage = "ApiReachable" -> "ready"
         [] stage = "NodeReady" -> "ready"

\* The loop body without the break.
AfterCheckNoBreak(stage, ok) ==
  IF ~ok THEN "sleep"
  ELSE CASE stage = "ServiceActive" -> "check_port"
         [] stage = "PortListening" -> "check_file"
         [] stage = "CredentialFilePresent" -> "chmod"
         [] stage = "Chmod644" -> "check_api"
         [] stage = "ApiReachable" -> "check_node"
         [] stage = "NodeReady" -> "sleep"

\* The loop body going from the credential file straight to the API check.
AfterCheckNoChmod(stage, ok) ==
  IF ~ok THEN "sleep"
  ELSE CASE stage = "ServiceActive" -> "check_port"
         [] stage = "PortListening" -> "check_file"
         [] stage = "CredentialFilePresent" -> "check_api"
         [] stage = "Chmod644" -> "check_api"
         [] stage = "ApiReachable" -> "check_node"
         [] stage = "NodeReady" -> "ready"

\* The loop body failing the poller on the first false check.
AfterCheckFailsFast(stage, ok) ==
  IF ~ok THEN "failed"
  ELSE CASE stage = "ServiceActive" -> "check_port"
         [] stage = "PortListening" -> "check_file"
         [] stage = "CredentialFilePresent" -> "chmod"
         [] stage = "Chmod644" -> "check_api"
         [] stage = "ApiReachable" -> "check_node"
         [] stage = "NodeReady" -> "ready"

\* The loop body with the service check remembered from an earlier iteration.
AfterCheckCached(stage, ok) ==
  IF stage = "ServiceActive" /\ everActive THEN "check_port"
  ELSE IF ~ok THEN "sleep"
  ELSE CASE stage = "ServiceActive" -> "check_port"
         [] stage = "PortListening" -> "check_file"
         [] stage = "CredentialFilePresent" -> "chmod"
         [] stage = "Chmod644" -> "check_api"
         [] stage = "ApiReachable" -> "check_node"
         [] stage = "NodeReady" -> "ready"

\* Where the loop body goes after a check: the nested ifs of the loop. A
\* rejected exec call inside the try block of main.ts lands in the same catch
\* as a failed fs.access, that is, where a false check goes.
AfterCheck(stage, ok) ==
  IF ~ok THEN "sleep"
  ELSE CASE stage = "ServiceActive" -> "check_port"
         [] stage = "PortListening" -> "check_file"
         [] stage = "CredentialFilePresent" -> "chmod"
         [] stage = "Chmod644" -> "check_api"
         [] stage = "ApiReachable" -> "check_node"
         [] stage = "NodeReady" -> "ready"

\* One check of the loop body, with the result the command gives.
Check(at, stage) ==
  /\ pc = at
  /\ \E code \in ExitCodes :
       /\ iter' = Append(iter, [stage |-> stage, ok |-> code = 0])
       /\ everActive' = (everActive \/ (stage = "ServiceActive" /\ code = 0))
       /\ pc' = AfterCheck(stage, code = 0)
  /\ UNCHANGED <<inputs, post, step, issued, lastExit, failedCmd, error, ignored, handoff, outputs,
                 host, install, now, elapsed, diagCalls>>

CheckServiceActive == Check("check_service", "ServiceActive")
CheckPortListening == Check("check_port", "PortListening")
CheckCredentialFile == Check("check_file", "CredentialFilePresent")
CheckApiReachable == Check("check_api", "ApiReachable")
CheckNodeReady == Check("check_node", "NodeReady")

\* chmod 644 of the kubeconfig: its exit code is ignored.
ChmodKubeconfig ==
  /\ pc = "chmod"
  /\ \E code \in ExitCodes :
       iter' = Append(iter, [stage |-> "Chmod644", ok |-> code = 0])
  /\ pc' = AfterCheck("Chmod644", TRUE)
  /\ UNCHANGED <<inputs, post, step, issued, lastExit, failedCmd, error, ignored, handoff, outputs,
                 host, install, now, elapsed, everActive, diagCalls>>

\* The node is Ready: the outputs are set again (main.ts) and the loop is left.
PollReady ==
  /\ pc = "ready"
  /\ outputs' = (IF variant = "ts"
                 THEN [output |-> KubeconfigPath, env |-> KubeconfigPath] ELSE outputs)
  /\ pc' = "done"
  /\ UNCHANGED <<inputs, post, step, issued, lastExit, failedCmd, error, ignored, handoff, host,
                 install, poller>>

\* A sleep during which the clock does not advance.
AfterSleepFrozen(n, d) == n

\* The clock after the sleep that ends an iteration that began at n: the five
\* seconds of the sleep and the d seconds the iteration's commands took.
AfterSleep(n, d) == n + SleepSeconds + d

\* Past MaxClock only a poller whose comparison is never true (a NaN timeout)
\* still sleeps: its clock is no longer compared with anything and is kept.
PollSleep ==
  /\ pc = "sleep"
  /\ now <= MaxClock \/ timeout.nan
  /\ \E d \in 0..MaxDrift :
       now' = (IF now <= MaxClock THEN AfterSleep(now, d) ELSE now)
  /\ pc' = "loop"
  /\ UNCHANGED <<inputs, post, step, issued, lastExit, failedCmd, error, ignored, handoff, outputs,
                 host, install, elapsed, iter, everActive, diagCalls>>

\* showDiagnostics of main.ts; the status and journal dump of setup.sh. Every
\* command of it ignores its exit code.
\* What gathering the diagnostics can do: every command exits 0, a command
\* exits non-zero, or (main.ts) a call of exec.exec is rejected.
DiagOutcomes(v) == IF v = "ts" THEN {"ok", "nonzero", "throws"} ELSE {"ok", "nonzero"}

\* What the dump logs: the catch of showDiagnostics turns a rejected call into
\* a warning; a non-zero exit code is ignored.
DiagLog(outcome) ==
  CASE outcome = "ok" -> "diag_ok"
    [] outcome = "nonzero" -> "diag_nonzero"
    [] outcome = "throws" -> "diag_warning"

\* Diagnostics whose rejected call leaves the poller in place of the timeout
\* error.
AfterDiagnosticsEscalates(outcome) == IF outcome = "ok" THEN "throw" ELSE "failed"

\* Where the timeout branch goes after the dump: the try/catch/finally of
\* showDiagnostics and the '|| true' of setup.sh let nothing out, the throw
\* (the exit 1) is next.
AfterDiagnostics(outcome) == "throw"

ShowDiagnostics ==
  /\ pc = "timeout"
  /\ diagCalls' = diagCalls + 1
  /\ \E outcome \in DiagOutcomes(variant) :
       /\ issued' = Append(issued, DiagLog(outcome))
       /\ pc' = AfterDiagnostics(outcome)
  /\ UNCHANGED <<inputs, post, step, lastExit, failedCmd, error, ignored, handoff, outputs,
                 host, install, now, elapsed, iter, everActive>>

\* throw new Error('Timeout waiting for cluster to be ready')  /  exit 1
ThrowTimeout ==
  /\ pc = "throw"
  /\ error' = "timeout"
  /\ pc' = "failed"
  /\ UNCHANGED <<inputs, post, step, issued, lastExit, failedCmd, ignored, handoff, outputs, host,
                 install, poller>>

\* ---------------------------------------------------------------- cleanup
\* The removal list without the unit file.
FilesToRemoveButUnit ==
  << DataDir, KubesoloBinary, "/opt/cni", "/var/lib/cni", "/etc/cni",
     "/var/log/pods", "/var/log/containers" >>

\* filesToRemove of stopKubeSolo, in order
FilesToRemove ==
  << DataDir, KubesoloBinary, UnitFile, "/opt/cni", "/var/lib/cni", "/etc/cni",
     "/var/log/pods", "/var/log/containers" >>
RemovePath(path) == << Cmd("rm_path", path, TRUE) >>
Restore(binary) == << Cmd("restore", binary, TRUE) >>
Unmask(service) == << Cmd("unmask", service, TRUE) >>
StartAndVerify(service) ==
  << Cmd("start_runtime", service, TRUE), Cmd("verify", service, TRUE) >>

\* stopKubeSolo of cleanup.ts (the 2 s wait changes no state)
StopChain ==
  << Cmd("is_active", "kubesolo", TRUE), Cmd("svc_stop", "kubesolo", TRUE),
     Cmd("is_enabled", "kubesolo", TRUE), Cmd("svc_disable", "kubesolo", TRUE),
     Cmd("svc_kill", "kubesolo", TRUE) >>
    \o FlatMap(RemovePath, FilesToRemove)
    \o << Cmd("daemon_reload", "", TRUE) >>

\* A restore that leaves out runc.
RestoreChainButRunc == FlatMap(Restore, SubSeq(BinaryOrder, 1, 5))

\* restoreContainerRuntimes of cleanup.ts
RestoreChain == FlatMap(Restore, BinaryOrder)

\* The services started before they are unmasked and systemd reloaded.
ServicesChainStartFirst ==
  FlatMap(StartAndVerify, ServiceOrder)
    \o FlatMap(Unmask, ServiceOrder)
    \o << Cmd("daemon_reload", "", TRUE) >>

\* restoreServices of cleanup.ts
ServicesChain ==
  FlatMap(Unmask, ServiceOrder)
    \o << Cmd("daemon_reload", "", TRUE) >>
    \o FlatMap(StartAndVerify, ServiceOrder)

\* The commands that only ask systemd for a state.
Queries == {"is_active", "is_enabled", "verify"}

\* Whether the command can exit 0 on this host: a query answers what the host
\* is, and systemd starts only a unit that exists and is not masked.
CanSucceed(c) ==
  CASE c.name = "is_active" -> svc.started
    [] c.name = "is_enabled" -> svc.enabled
    [] c.name = "verify" -> c.arg \in active
    [] c.name = "start_runtime" -> c.arg \in before.units /\ c.arg \notin masked
    [] OTHER -> TRUE

\* Whether the exit code is what the host dictates (is-enabled reads a link,
\* the verification reads the service just started); is-active of kubesolo may
\* exit non-zero for a unit that was started (activating, restarting, failed).
Dictated(c) == c.name \in {"is_enabled", "verify"}

\* Whether an exception of the command stays in the function that issued it:
\* restoreContainerRuntimes wraps each binary in its own try/catch.
Swallowed(c) == c.name = "restore"

\* The catch of cleanup() rethrowing.
CleanupCatchRethrows == "failed"

\* The catch of cleanup(): a warning, and the workflow is not failed.
CleanupCatch == "warned"

\* One command of cleanup.ts: skipped when its guard is false, otherwise
\* issued; exec.exec resolves with the exit code, or rejects (the process could
\* not be spawned, or the exit code is not ignored).
PostChainStep(chain, fn, nextPc, result) ==
  LET c == chain[step]
      last == step = Len(chain)
      advance == /\ pc' = (IF last THEN nextPc ELSE pc)
                 /\ step' = (IF last THEN 1 ELSE step + 1)
                 /\ postResult' = (IF last THEN result ELSE postResult)
  IN IF ~Guarded(c)
     THEN /\ advance
          /\ UNCHANGED <<issued, lastExit, ignored, host, thrown, unrestored, unremoved>>
     ELSE \E code \in ExitCodes, rejects \in BOOLEAN :
            /\ code = 0 => CanSucceed(c) /\ ~rejects
            /\ (Dictated(c) /\ ~rejects) => (code = 0 <=> CanSucceed(c))
            /\ issued' = Append(issued, c.name)
            /\ lastExit' = code
            /\ unrestored' = (IF c.name # "restore" THEN unrestored
                              ELSE IF code # 0 THEN unrestored \cup {c.arg}
                              ELSE unrestored \ {c.arg})
            /\ unremoved' = (IF c.name = "rm_path" /\ code # 0
                             THEN unremoved \cup {c.arg} ELSE unremoved)
            /\ LET fault == rejects \/ (code # 0 /\ CanSucceed(c) /\ c.name \notin Queries)
                   raised == rejects \/ (code # 0 /\ Aborts(c))
               IN /\ fault => ignored < MaxIgnoredFailures
                  /\ ignored' = (IF fault THEN ignored + 1 ELSE ignored)
                  /\ IF raised /\ ~Swallowed(c)
                     THEN /\ thrown' = fn
                          /\ postResult' = CleanupCatch
                          /\ pc' = "post_done"
                          /\ step' = 1
                          /\ UNCHANGED host
                     ELSE /\ SetHost(IF code = 0 THEN HostAfter(c)
                                     ELSE HostAfter(Cmd("none", "", TRUE)))
                          /\ advance
                          /\ UNCHANGED thrown

\* The workflow body, between setup and the post-run phase: it may install a
\* runtime binary at its path in /usr/bin.
ReinstallChoices == {"docker"}
WorkflowBody ==
  /\ variant = "ts"
  /\ pc \in {"done", "failed"}
  /\ reinstalled = {}
  /\ \E b \in ReinstallChoices :
       /\ b \notin binPresent
       /\ binPresent' = binPresent \cup {b}
       /\ reinstalled' = {b}
  /\ UNCHANGED <<inputs, control, active, masked, bakPresent, files, svc, install,
                 poller, before, thrown, postResult, unrestored, unremoved, snap>>

\* An entry point that runs the cleanup whatever the saved state.
PostDispatchAlways(flag) == "stopKubeSolo"

\* What the entry point of the post-run phase does with the saved state.
PostDispatch(flag) == IF flag THEN "stopKubeSolo" ELSE "post_done"

\* The runner starts the post-run phase in a process of its own: it reads no
\* input and has none of the memory of main. It follows a main that ended, or
\* one that never reached its first statement.
PostRun ==
  /\ variant = "ts"
  /\ pc \in {"start", "done", "failed"}
  /\ pc' = PostDispatch(handoff)
  /\ postResult' = (IF PostDispatch(handoff) = "post_done" THEN "noop" ELSE postResult)
  /\ step' = 1
  /\ issued' = <<>>
  /\ lastExit' = 0
  /\ failedCmd' = "none"
  /\ error' = "none"
  /\ versionInput' = "latest"
  /\ waitForReady' = FALSE
  /\ timeout' = Num(DefaultTimeout)
  /\ actualVersion' = ""
  /\ arch' = ""
  /\ binaryArch' = ""
  /\ now' = 0
  /\ elapsed' = -1
  /\ iter' = <<>>
  /\ everActive' = FALSE
  /\ diagCalls' = 0
  /\ UNCHANGED <<variant, ignored, handoff, outputs, host, before, reinstalled, thrown,
                 unrestored, unremoved, snap>>

PostUnchanged == UNCHANGED <<inputs, failedCmd, error, handoff, outputs, install, poller,
                             before, reinstalled, snap>>

StopKubeSolo ==
  /\ pc = "stopKubeSolo"
  /\ PostChainStep(StopChain, "stopKubeSolo", "restoreContainerRuntimes", postResult)
  /\ PostUnchanged

RestoreContainerRuntimes ==
  /\ pc = "restoreContainerRuntimes"
  /\ PostChainStep(RestoreChain, "restoreContainerRuntimes", "restoreServices", postResult)
  /\ PostUnchanged

RestoreServices ==
  /\ pc = "restoreServices"
  /\ PostChainStep(ServicesChain, "restoreServices", "post_done", "ok")
  /\ PostUnchanged

PostPcs == {"stopKubeSolo", "restoreContainerRuntimes", "restoreServices", "post_done"}

SetupNext ==
  \/ MainStart
  \/ DisableStep
  \/ ResolveVersion
  \/ DetectArch
  \/ MapArch
  \/ InstallStep
  \/ Publish
  \/ WaitStart
  \/ LoopHead
  \/ CheckServiceActive
  \/ CheckPortListening
  \/ CheckCredentialFile
  \/ ChmodKubeconfig
  \/ CheckApiReachable
  \/ CheckNodeReady
  \/ PollReady
  \/ PollSleep
  \/ ShowDiagnostics
  \/ ThrowTimeout

PostNext ==
  \/ WorkflowBody
  \/ PostRun
  \/ StopKubeSolo
  \/ RestoreContainerRuntimes
  \/ RestoreServices

Next == SetupNext \/ PostNext

Spec == Init /\ [][Next]_vars

\* ---------------------------------------------------------- repeated calls
\* The binaries and the commands issued, as a repeated call of fn finds them.
Snap(fn) == [fn |-> fn, bins |-> binPresent, baks |-> bakPresent, n |-> Len(issued)]

\* disableContainerRuntimes called again right after it has returned.
DisableAgain ==
  /\ pc = "resolve"
  /\ snap = NoSnap
  /\ snap' = Snap("disable")
  /\ pc' = "disable_again"
  /\ step' = 1
  /\ UNCHANGED <<inputs, issued, lastExit, failedCmd, error, ignored, handoff, outputs,
                 host, install, poller, before, reinstalled, thrown, postResult,
                 unrestored, unremoved>>

DisableStepAgain ==
  /\ pc = "disable_again"
  /\ ChainStep(DisableChain(variant), "called_twice")
  /\ UNCHANGED <<inputs, post, handoff, outputs, install, poller>>

\* restoreContainerRuntimes called again right after it has returned.
RestoreAgain ==
  /\ pc = "restoreServices"
  /\ step = 1
  /\ snap = NoSnap
  /\ snap' = Snap("restore")
  /\ pc' = "restore_again"
  /\ UNCHANGED <<inputs, step, issued, lastExit, failedCmd, error, ignored, handoff,
                 outputs, host, install, poller, before, reinstalled, thrown,
                 postResult, unrestored, unremoved>>

RestoreStepAgain ==
  /\ pc = "restore_again"
  /\ PostChainStep(RestoreChain, "restoreContainerRuntimes", "called_twice", postResult)
  /\ PostUnchanged

\* The program, and the two functions called a second time.
CallNext ==
  \/ Next
  \/ DisableAgain
  \/ DisableStepAgain
  \/ RestoreAgain
  \/ RestoreStepAgain

CallSpec == Init /\ [][CallNext]_vars

\* The runs that wait for the cluster, on a clean host with a pinned version
\* (no step of the poller reads the host or the version).
LiveInit == Init /\ waitForReady /\ versionInput = "v1.0.0" /\ binPresent = {}

\* The run under the scheduling the program has: it is one sequential process,
\* so a step that can be taken is taken.
FairSpec == LiveInit /\ [][Next]_vars /\ WF_vars(Next)

\* The runs that wait for the cluster with a pinned version, on every host:
\* the post-run phase then follows a setup that succeeded, failed or timed out.
CleanupInit == Init /\ waitForReady /\ versionInput = "v1.0.0"

\* The same scheduling: setup, the workflow body and the post-run phase are
\* steps of one job, each taken when it can be.
CleanupFairSpec == CleanupInit /\ [][Next]_vars /\ WF_vars(Next)

\* ------------------------------------------------------ DNS readiness
\* The DNS readiness check of the script of unnamed/part_000 (set -e).
\* for i in $(seq 1 60)  /  for i in $(seq 1 10)
CoreDnsChecks == 60
LookupAttempts == 10

\* The script run with DNS_READINESS=true when it reaches the readiness loop:
\* kubesolo is installed and started, the outputs are published.
DnsInit ==
  /\ variant = "dns"
  /\ versionInput \in VersionInputs
  /\ waitForReady \in BOOLEAN
  /\ timeout = Num(DefaultTimeout)
  /\ \E h \in HostProfiles :
       /\ before = h
       /\ bakPresent = h.bins
       /\ files = {KubesoloBinary, DataDir, UnitFile}
  /\ active = {}
  /\ binPresent = {}
  /\ masked = {}
  /\ svc = [loaded |-> TRUE, enabled |-> TRUE, started |-> TRUE]
  /\ pc = "readiness"
  /\ step = 1
  /\ issued = <<>>
  /\ lastExit = 0
  /\ failedCmd = "none"
  /\ error = "none"
  /\ ignored = 0
  /\ handoff = FALSE
  /\ actualVersion = "v1.0.0"
  /\ arch = "x86_64"
  /\ binaryArch = "amd64"
  /\ outputs = Published
  /\ now = 0
  /\ elapsed = -1
  /\ iter = <<>>
  /\ everActive = FALSE
  /\ diagCalls = 0
  /\ reinstalled = {}
  /\ thrown = "none"
  /\ postResult = "none"
  /\ unrestored = {}
  /\ unremoved = {}
  /\ snap = NoSnap

DnsUnchanged == UNCHANGED <<inputs, post, ignored, handoff, outputs, host, install, poller>>

\* The bound tested one pass too late.
ExhaustedLate(i, n) == i = n + 1

\* [ "$i" -eq 60 ], and the end of seq 1 10
Exhausted(i, n) == i = n

\* An iteration of the readiness loop in which every check was true.
ReadyIteration ==
  << [stage |-> "ServiceActive", ok |-> TRUE], [stage |-> "PortListening", ok |-> TRUE],
     [stage |-> "CredentialFilePresent", ok |-> TRUE], [stage |-> "Chmod644", ok |-> TRUE],
     [stage |-> "ApiReachable", ok |-> TRUE], [stage |-> "NodeReady", ok |-> TRUE] >>

\* A script that goes on to the DNS check after the timeout of the loop.
DnsGateNoExit(w, ready) == "coredns"

\* Where the script is after 'if [ "$WAIT_FOR_READY" = "true" ] ... fi': the
\* loop is left by its break, or the script by the exit 1 of the timeout
\* branch; without wait-for-ready the loop is skipped.
DnsGate(w, ready) == IF w /\ ~ready THEN "failed" ELSE "coredns"

\* The readiness loop as the DNS check sees it, in one step: skipped, left
\* with the node Ready, or timed out after the diagnostics (the clock of the
\* loop is not kept).
DnsReadinessLoop ==
  /\ pc = "readiness"
  /\ \E ready \in BOOLEAN :
       /\ ready => waitForReady
       /\ iter' = (IF ready THEN ReadyIteration ELSE <<>>)
       /\ everActive' = ready
       /\ diagCalls' = (IF waitForReady /\ ~ready THEN 1 ELSE 0)
       /\ error' = (IF waitForReady /\ ~ready THEN "timeout" ELSE error)
       /\ pc' = DnsGate(waitForReady, ready)
  /\ UNCHANGED <<inputs, post, step, issued, lastExit, failedCmd, ignored, handoff, outputs,
                 host, install, now, elapsed>>

\* One pass of the CoreDNS wait: the pod list is tested for a running CoreDNS;
\* the 60th test failing ends the script with exit 1.
DnsCoreCheck ==
  /\ pc = "coredns"
  /\ \E ready \in BOOLEAN :
       /\ issued' = Append(issued, IF ready THEN "coredns_ready" ELSE "coredns_waiting")
       /\ IF ready
          THEN /\ pc' = "dns_run"
               /\ step' = 1
               /\ UNCHANGED error
          ELSE IF Exhausted(step, CoreDnsChecks)
          THEN /\ pc' = "failed"
               /\ error' = "coredns timeout"
               /\ UNCHANGED step
          ELSE /\ step' = step + 1
               /\ UNCHANGED <<pc, error>>
  /\ UNCHANGED <<lastExit, failedCmd>>
  /\ DnsUnchanged

\* A command of the check that is not part of a test: under set -e a non-zero
\* exit ends the script.
DnsCommand(name, nextPc, nextError) ==
  \E code \in ExitCodes :
    /\ issued' = Append(issued, name)
    /\ lastExit' = code
    /\ step' = 1
    /\ IF code # 0
       THEN /\ pc' = "failed"
            /\ failedCmd' = name
            /\ error' = "command failed"
       ELSE /\ pc' = nextPc
            /\ error' = nextError
            /\ UNCHANGED failedCmd

\* kubectl run dns-test
DnsRunPod ==
  /\ pc = "dns_run"
  /\ DnsCommand("dns_run", "dns_wait", error)
  /\ DnsUnchanged

\* kubectl wait --for=condition=ready pod/dns-test
DnsWaitPod ==
  /\ pc = "dns_wait"
  /\ DnsCommand("dns_wait", "nslookup", error)
  /\ DnsUnchanged

\* One attempt of the lookup in the pod; DNS_OK is the position after the loop.
DnsLookup ==
  /\ pc = "nslookup"
  /\ \E ok \in BOOLEAN :
       /\ issued' = Append(issued, IF ok THEN "nslookup_ok" ELSE "nslookup_failed")
       /\ IF ok
          THEN pc' = "dns_ok" /\ step' = 1
          ELSE IF Exhausted(step, LookupAttempts)
          THEN pc' = "dns_not_ok" /\ step' = 1
          ELSE step' = step + 1 /\ UNCHANGED pc
  /\ UNCHANGED <<lastExit, failedCmd, error>>
  /\ DnsUnchanged

\* kubectl delete pod dns-test --ignore-not-found, then exit 1 if DNS_OK is
\* false, the end of the script otherwise.
DnsDeletePod ==
  /\ pc \in {"dns_ok", "dns_not_ok"}
  /\ IF pc = "dns_ok"
     THEN DnsCommand("dns_delete", "done", error)
     ELSE DnsCommand("dns_delete", "failed", "dns failed")
  /\ DnsUnchanged

DnsNext ==
  \/ DnsReadinessLoop
  \/ DnsCoreCheck
  \/ DnsRunPod
  \/ DnsWaitPod
  \/ DnsLookup
  \/ DnsDeletePod

DnsSpec == DnsInit /\ [][DnsNext]_vars

\* ----------------------------------------------------------------- claims
\* The readiness checks of the current iteration, in order (the chmod left out).
IsCheck(e) == e.stage # "Chmod644"
checks == SelectSeq(iter, IsCheck)
AllFiveTrue ==
  /\ Len(checks) = Len(Stages)
  /\ \A i \in 1..Len(checks) : checks[i].stage = Stages[i] /\ checks[i].ok
BodyPcs == {"check_service", "check_port", "check_file", "chmod", "check_api",
            "check_node", "sleep", "ready"}
PollerSucceeded == pc = "done" /\ waitForReady
WithinTimeout == timeout.nan \/ elapsed <= timeout.val
Issued(n) == \E i \in 1..Len(issued) : issued[i] = n

\* C1: within one iteration the checks run in the order ServiceActive,
\* PortListening, CredentialFilePresent, ApiReachable, NodeReady; a check is
\* evaluated only if every earlier check of the iteration was true, so a false
\* check is the last check of its iteration.
C1_ChecksGatedInOrder ==
  /\ Len(checks) <= Len(Stages)
  /\ \A i \in 1..Len(checks) :
       /\ checks[i].stage = Stages[i]
       /\ i < Len(checks) => checks[i].ok
  /\ (checks # <<>> /\ ~checks[Len(checks)].ok) => pc \in {"sleep", "loop"}

\* A false credential-file check has ended the checks of its iteration.
C1_Witness == pc = "sleep" /\ Len(checks) = 3 /\ ~checks[3].ok

\* C2: the poller takes the timeout path exactly when elapsed, at the start of
\* an iteration, is strictly greater than the timeout; at elapsed = timeout it
\* runs the checks; the diagnostics are dumped exactly once on a timeout and
\* never otherwise.
C2_TimeoutStrictlyGreater ==
  /\ (pc \in {"timeout", "throw"} \/ error = "timeout") =>
       (~timeout.nan /\ elapsed > timeout.val)
  /\ pc \in BodyPcs => WithinTimeout
  /\ error = "timeout" => diagCalls = 1
  /\ diagCalls <= 1
  /\ diagCalls = 1 => (pc = "throw" \/ error = "timeout")

\* An iteration that began with elapsed equal to the timeout has run a check.
C2_Witness == ~timeout.nan /\ elapsed = timeout.val /\ elapsed > 0 /\ iter # <<>>

\* C3: the poller returns success only in an iteration in which all five
\* checks were evaluated and found true.
C3_SuccessNeedsAllFive == (pc = "ready" \/ PollerSucceeded) => AllFiveTrue

C3_Witness == PollerSucceeded /\ elapsed > 0

\* C4: with a non-negative integer timeout, a poller that has started ends,
\* with success or with the timeout error.
C4_PollerTerminates ==
  (pc = "loop" /\ ~timeout.nan /\ timeout.val >= 0)
    ~> (PollerSucceeded \/ (pc = "failed" /\ error = "timeout"))

\* The poller has timed out under a non-negative timeout.
C4_Witness == pc = "failed" /\ error = "timeout" /\ timeout.val >= 0 /\ diagCalls = 1

\* C5: while the service has never been active, no check after ServiceActive
\* is evaluated and the poller does not succeed; the poller takes the timeout
\* path in the first iteration whose elapsed exceeds the timeout (the iteration
\* before, if any, began within the timeout), dumps the diagnostics once, and,
\* with an integer timeout, does fail.
C5_NeverActiveTimesOut ==
  /\ [](~everActive =>
          /\ \A i \in 1..Len(checks) : checks[i].stage = "ServiceActive"
          /\ pc \notin {"check_port", "check_file", "chmod", "check_api", "check_node",
                        "ready"}
          /\ ~PollerSucceeded)
  /\ [][(pc = "loop" /\ pc' = "timeout") =>
          /\ elapsed' > timeout.val
          /\ elapsed = -1 \/ elapsed <= timeout.val]_vars
  /\ [](pc \in BodyPcs => WithinTimeout)
  /\ [](error = "timeout" => diagCalls = 1)
  /\ ((pc = "loop" /\ ~timeout.nan)
        ~> (everActive \/ (pc = "failed" /\ error = "timeout" /\ diagCalls = 1)))

\* The service was never active and the poller has timed out after some sleeps.
C5_Witness ==
  ~everActive /\ pc = "failed" /\ error = "timeout" /\ elapsed > SleepSeconds

\* C6: an iteration that began within the timeout and in which the five checks
\* are all true is the one in which the poller returns success: no timeout
\* error is raised and no diagnostics are dumped.
C6_AllFiveTrueSucceeds ==
  (AllFiveTrue /\ WithinTimeout) =>
    (pc \in {"ready", "done"} /\ error = "none" /\ diagCalls = 0)

\* The five checks were all true for the first time in a later iteration.
C6_Witness == AllFiveTrue /\ PollerSucceeded /\ elapsed >= 2 * SleepSeconds

\* The architectures and tokens of the claim.
ClaimedMachines == {"x86_64", "aarch64", "arm64", "armv7l"}
ClaimedToken(m) ==
  CASE m = "x86_64" -> "amd64" [] m = "aarch64" -> "arm64" [] m = "arm64" -> "arm64"
    [] m = "armv7l" -> "arm"
AfterMapArch == arch # "" /\ pc # "maparch"

\* C7: each of x86_64, aarch64, arm64 and armv7l is mapped to its token
\* (amd64, arm64, arm64, arm) and the run goes on to the download.
C7_SupportedMachinesMapped ==
  (AfterMapArch /\ arch \in ClaimedMachines) =>
    (binaryArch = ClaimedToken(arch) /\ error # "unsupported architecture")

\* C8: for a machine outside the supported set the run fails with the
\* unsupported-architecture error before the download is issued; no binary is
\* installed, no unit file written, the service never started.
C8_UnsupportedMachineFailsEarly ==
  (arch # "" /\ arch \notin ClaimedMachines) =>
    /\ pc = "maparch" \/ (pc = "failed" /\ error = "unsupported architecture")
    /\ ~Issued("download") /\ ~Issued("mv_binary") /\ ~Issued("write_unit")
    /\ ~Issued("start")
    /\ KubesoloBinary \notin files /\ UnitFile \notin files /\ ~svc.started

C8_Witness == arch = "riscv64" /\ pc = "failed" /\ error = "unsupported architecture"

\* C9: when version is "latest" and the lookup printed nothing, the download
\* is never issued and no unit file or service is created.
C9_EmptyVersionNoDownload ==
  (versionInput = "latest" /\ Issued("lookup") /\ failedCmd # "lookup"
     /\ actualVersion = "") =>
    (~Issued("download") /\ UnitFile \notin files /\ ~svc.started)

\* The commands of the chain the claim names.
C10Commands == {"download", "extract", "mv_binary", "chmod_x", "write_unit",
                "daemon_reload", "enable", "start"}

\* C10: a non-zero exit of download, extraction, binary move, chmod, unit-file
\* write, daemon-reload, enable or start ends the run with an error; the failing
\* command is the last one issued and no step follows; the service is not
\* started after a failed download, extraction or move.
C10_ChainFailureAborts ==
  (pc \notin PostPcs /\ issued # <<>> /\ issued[Len(issued)] \in C10Commands
     /\ lastExit # 0) =>
    /\ pc = "failed"
    /\ error = "command failed"
    /\ failedCmd = issued[Len(issued)]
    /\ ~ENABLED SetupNext
    /\ failedCmd \in {"download", "extract", "mv_binary"} => ~svc.started

\* The binary move has failed after a download and an extraction that succeeded.
C10_Witness == failedCmd = "mv_binary" /\ Issued("extract") /\ pc = "failed"

\* The commands of the runtime removal.
C11Commands == {"stop", "mask", "disable", "pkill", "backup", "rm_data", "rm_sockets",
                "ip_link", "iptables"}

\* C11: no stop, mask or disable, binary rename, socket or data removal, or
\* iptables command of the runtime removal ends the run, whatever its exit
\* code: the command whose exit ended the run is never one of them.
C11_DisableNeverFails == failedCmd \notin C11Commands

\* C12: the cleanup never fails the job: whatever command exits non-zero or
\* throws, no error is raised out of cleanup(), an escaped exception ends it
\* with a warning, an unfinished cleanup always has a next step, and a finished
\* one has ended normally.
C12_CleanupNeverFails ==
  /\ postResult # "failed"
  /\ pc \in PostPcs => error = "none" /\ failedCmd = "none"
  /\ thrown # "none" => pc = "post_done" /\ postResult = "warned"
  /\ pc \in PostPcs \ {"post_done"} => ENABLED PostNext
  /\ pc = "post_done" => postResult \in {"ok", "warned", "noop"}

\* An exception has escaped from restoreServices and the cleanup has ended.
C12_Witness == thrown = "restoreServices" /\ pc = "post_done" /\ postResult = "warned"

\* C13: when the handoff flag is absent the post-run phase changes nothing:
\* it issues no command, leaves services, files and binaries as they are and
\* ends at once.
C13_NoFlagNoCleanup ==
  /\ [][(~handoff /\ pc' \in PostPcs) =>
          (UNCHANGED host /\ issued' = <<>> /\ pc' = "post_done")]_vars
  /\ [](postResult = "noop" => (~handoff /\ ~ENABLED Next))

\* The post-run phase has run without the flag.
C13_Witness == postResult = "noop" /\ pc = "post_done" /\ ~handoff

\* The host differs from the one the job started on.
Mutated ==
  \/ <<active, binPresent, files>> # <<before.active, before.bins, before.files>>
  \/ masked # {} \/ bakPresent # {}
  \/ svc # [loaded |-> FALSE, enabled |-> FALSE, started |-> FALSE]

\* C14: main.ts saves the handoff flag before any destructive work: in every
\* state in which a command has been issued or the host has been changed the
\* flag is set, also when setup has failed partway.
C14_FlagBeforeMutation ==
  variant = "ts" =>
    ((issued # <<>> \/ Mutated \/ pc \notin {"start", "post_done"}) => handoff)

\* Setup has failed at the download, after a binary was renamed.
C14_Witness ==
  variant = "ts" /\ pc = "failed" /\ failedCmd = "download" /\ bakPresent # {} /\ handoff

\* The cleanup has finished and restoreContainerRuntimes has run in it.
RestoreHasRun ==
  pc = "post_done" /\ postResult \in {"ok", "warned"} /\ thrown # "stopKubeSolo"

C16_DisableTwiceChangesNothing ==
  /\ failedCmd # "backup"
  /\ (pc = "called_twice" /\ snap.fn = "disable") =>
       (binPresent = snap.bins /\ bakPresent = snap.baks)

\* C17 as claimed: a second restore finds no backup, issues no command and
\* leaves every binary as it found it.
C17_SecondRestoreNoOp ==
  (pc = "called_twice" /\ snap.fn = "restore") =>
    /\ snap.baks = {}
    /\ Len(issued) = snap.n
    /\ binPresent = snap.bins /\ bakPresent = snap.baks

\* C17, amended: a second restore raises no error and moves nothing but the
\* backups the first call has left behind; when the first call has left none,
\* it issues no command and changes no binary.
C17_SecondRestoreMovesLeftovers ==
  snap.fn = "restore" =>
    /\ pc \in {"restore_again", "called_twice"}
    /\ thrown = "none" /\ postResult = "none" /\ error = "none"
    /\ bakPresent \subseteq snap.baks
    /\ binPresent \ snap.bins \subseteq snap.baks
    /\ snap.bins \subseteq binPresent
    /\ snap.baks = {} =>
         (Len(issued) = snap.n /\ binPresent = snap.bins /\ bakPresent = {})

\* The first restore has moved a backup, and the second call has returned.
C17_Witness ==
  /\ pc = "called_twice" /\ snap.fn = "restore" /\ snap.baks = {}
  /\ Issued("restore") /\ "docker" \in before.bins /\ "docker" \in binPresent

\* Setup has run on the host: main.ts has saved its flag, setup.sh has started.
SetupHasRun == IF variant = "ts" THEN handoff ELSE pc # "start"

\* The cleanup has not moved the backup of b back: the restore has not run
\* yet, or was skipped, or its mv has not exited 0.
NotYetRestored(b) ==
  \/ pc \notin {"restoreServices", "post_done"}
  \/ thrown = "stopKubeSolo"
  \/ b \in unrestored

\* C18 as claimed: in every state of setup and cleanup, at most one of
\* /usr/bin/<name> and /usr/bin/<name>.bak exists, and a backup exists only
\* if setup has run and the cleanup has not yet restored it.
C18_AtMostOnePath ==
  \A b \in Binaries :
    /\ ~(b \in binPresent /\ b \in bakPresent)
    /\ b \in bakPresent => (SetupHasRun /\ NotYetRestored(b))

\* C18, amended: setup and cleanup never make the second path: both paths exist
\* only for a binary the workflow body has put back while its backup existed;
\* a backup exists only for a binary that was there before setup, once setup
\* has run, and until the cleanup has restored it.
C18_AtMostOnePathUnlessReinstalled ==
  \A b \in Binaries :
    /\ (b \in binPresent /\ b \in bakPresent) => b \in reinstalled
    /\ b \in bakPresent => (b \in before.bins /\ SetupHasRun /\ NotYetRestored(b))

\* Setup has renamed every binary of the host and the cleanup is about to
\* restore them.
C18_Witness ==
  /\ pc = "restoreContainerRuntimes" /\ step = 1
  /\ bakPresent = before.bins /\ bakPresent # {} /\ binPresent = {}

\* C19 as claimed: in every state of setup and cleanup, the unit file exists
\* only together with the kubesolo binary and the data directory.
C19_UnitImpliesInstall ==
  UnitFile \in files => (KubesoloBinary \in files /\ DataDir \in files)

\* C19, amended: in every state of setup, also one where the install has
\* failed partway, the unit file exists only together with the kubesolo binary
\* and the data directory.
C19_UnitImpliesInstallInSetup ==
  (pc \notin PostPcs /\ UnitFile \in files) =>
    (KubesoloBinary \in files /\ DataDir \in files)

\* The install has failed right after the unit file was written.
C19_Witness ==
  pc = "failed" /\ failedCmd = "daemon_reload" /\ UnitFile \in files

\* The three paths of the installed unit.
UnitPaths == {UnitFile, KubesoloBinary, DataDir}

\* daemon-reload has been issued after every removal.
ReloadedAfterRemoval ==
  \E i \in 1..Len(issued) :
    /\ issued[i] = "daemon_reload"
    /\ \A j \in 1..Len(issued) : issued[j] = "rm_path" => j < i

OriginalState ==
  /\ active = before.active
  /\ masked = {}
  /\ binPresent = before.bins
  /\ bakPresent = {}
  /\ files = before.files

\* C21: after setup followed by a cleanup that ran to its end, every
\* conflicting service is active and masked as before setup, and every path
\* the action touches is present or absent as before setup.
C21_OriginalStateRestored ==
  (pc = "post_done" /\ postResult = "ok") => OriginalState

\* The positions of the readiness poller.
PollerPcs == {"wait", "loop", "timeout", "throw"} \cup BodyPcs

\* C22: once the install has succeeded, the kubeconfig output and the
\* KUBECONFIG variable both hold the credential-file path: they are set before
\* the poller starts and stay set whether it succeeds, times out or is skipped.
C22_PublishedBeforePoller ==
  /\ pc \in PollerPcs => outputs = Published
  /\ (pc \in {"done", "failed"} /\ Issued("chmod_kubeconfig")) => outputs = Published
  /\ outputs \in {[output |-> "", env |-> ""], Published}

\* The poller has timed out after the outputs were published.
C22_Witness == pc = "failed" /\ error = "timeout" /\ outputs = Published

\* How many times a command is in the log of issued commands.
Count(n) == Cardinality({i \in 1..Len(issued) : issued[i] = n})

\* The probe pod has been created: kubectl run has exited 0.
PodCreated == Issued("dns_run") /\ ~(failedCmd = "dns_run")

\* C23: once the probe pod has been created, every way out of the DNS check
\* has attempted its deletion, and a deletion that fails is not what ends the
\* script.
C23_ProbePodAlwaysDeleted ==
  (PodCreated /\ pc \in {"done", "failed"}) =>
    (Issued("dns_delete") /\ failedCmd # "dns_delete")

\* C24: the CoreDNS wait makes at most 60 tests and the lookup at most 10
\* attempts; 60 failed tests, or 10 failed attempts, end the script with an
\* error; a lookup that succeeds within its bound lets the script complete:
\* no exhaustion error follows it, only the deletion of the probe pod is left
\* to run, and the script ends without error when that has exited 0.
C24_DnsPhaseBounded ==
  /\ Count("coredns_waiting") + Count("coredns_ready") <= CoreDnsChecks
  /\ Count("nslookup_failed") + Count("nslookup_ok") <= LookupAttempts
  /\ Count("coredns_waiting") = CoreDnsChecks =>
       (pc = "failed" /\ error = "coredns timeout" /\ ~Issued("dns_run"))
  /\ Count("nslookup_failed") = LookupAttempts =>
       (pc \in {"dns_not_ok", "failed"} /\ (pc = "failed" => error # "none"))
  /\ Issued("nslookup_ok") =>
       /\ pc \in {"dns_ok", "done", "failed"}
       /\ pc = "failed" => failedCmd = "dns_delete"
       /\ (Issued("dns_delete") /\ lastExit = 0) => (pc = "done" /\ error = "none")
  /\ (variant = "dns" /\ pc = "done") => (Issued("coredns_ready") /\ Issued("nslookup_ok"))

\* The lookup has succeeded at its last attempt after CoreDNS was ready at its
\* last test, and the script has completed.
C24_Witness ==
  /\ pc = "done" /\ Count("coredns_waiting") = CoreDnsChecks - 1
  /\ Count("nslookup_failed") = LookupAttempts - 1 /\ Issued("nslookup_ok")

\* C25: every cleanup that has run has attempted all three of its steps: no
\* failure while stopping and uninstalling kubesolo has kept the restore of
\* the binaries from running, and none in the restore has kept the unmask and
\* start of the services from running.
C25_AllThreeStepsAttempted ==
  (pc = "post_done" /\ postResult \in {"ok", "warned"}) =>
    thrown \notin {"stopKubeSolo", "restoreContainerRuntimes"}

\* Every a in the log of issued commands comes before every b.
AllBefore(a, b) ==
  \A j \in 1..Len(issued) :
    issued[j] = b => \A i \in j..Len(issued) : issued[i] # a

\* C26: the cleanup issues its commands in the order: stop and uninstall
\* kubesolo (ending with a daemon-reload), the restore of the binaries, the
\* unmask of the four services, a daemon-reload, the start of the services.
\* When the first service start is issued, the move of every existing backup
\* has been issued (a backup still there is one whose mv did not exit 0), all
\* four unmasks and the second daemon-reload have been issued.
C26_CleanupOrder ==
  pc \in PostPcs =>
    /\ AllBefore("svc_kill", "rm_path") /\ AllBefore("rm_path", "restore")
    /\ AllBefore("rm_path", "unmask") /\ AllBefore("restore", "unmask")
    /\ AllBefore("unmask", "start_runtime") /\ AllBefore("is_active", "restore")
    /\ Issued("restore") => Count("rm_path") = Len(FilesToRemove)
    /\ Issued("unmask") => (Count("daemon_reload") >= 1 /\ bakPresent \subseteq unrestored)
    /\ Issued("start_runtime") =>
         /\ bakPresent \subseteq unrestored
         /\ Count("unmask") = Len(ServiceOrder)
         /\ Count("daemon_reload") = 2
         /\ issued[Len(issued) - Count("start_runtime") - Count("verify")] = "daemon_reload"

\* A backup has been moved back and, after it, a service has been started.
C26_Witness ==
  /\ pc = "post_done" /\ postResult = "ok" /\ Issued("restore") /\ unrestored = {}
  /\ "docker" \in before.bins /\ "docker" \in binPresent /\ "docker" \in active

\* Every conflicting service has had its stop and its mask (main.ts), or the
\* one stop and the one disable of all of them (setup.sh), issued, and every
\* runtime binary of the host its rename.
Neutralized ==
  /\ IF variant = "ts"
     THEN Count("stop") = Len(ServiceOrder) /\ Count("mask") = Len(ServiceOrder)
     ELSE Count("stop") = 1 /\ Count("disable") = 1
  /\ Count("backup") = Cardinality(before.bins)

\* C27: setup neutralizes, installs, then polls: the start of kubesolo is
\* issued only after the stop and mask of every conflicting service and the
\* rename of every present runtime binary have been issued, the kubesolo
\* binary installed, the unit file written and systemd reloaded; the poller
\* starts only after the start has exited 0.
C27_SetupOrder ==
  (variant \in Variants /\ pc \notin PostPcs) =>
    /\ Issued("start") =>
         /\ Neutralized
         /\ AllBefore("stop", "start") /\ AllBefore("mask", "start")
         /\ AllBefore("disable", "start") /\ AllBefore("backup", "start")
         /\ AllBefore("mv_binary", "start") /\ AllBefore("write_unit", "start")
         /\ AllBefore("daemon_reload", "start")
         /\ Issued("mv_binary") /\ Issued("write_unit") /\ Issued("daemon_reload")
         /\ {KubesoloBinary, UnitFile} \subseteq files /\ svc.loaded
    /\ svc.started => Issued("start")
    /\ pc \in PollerPcs => (svc.started /\ Count("start") = 1 /\ failedCmd = "none")

\* The poller is running on a host whose runtime was neutralized.
C27_Witness ==
  /\ pc = "check_service" /\ svc.started /\ before.bins # {}
  /\ bakPresent = before.bins /\ masked = Services

\* The service was active in an earlier iteration and is found inactive in
\* this one.
ServiceRegressed == everActive /\ checks # <<>> /\ ~checks[1].ok

\* C28: no readiness stage is cached across iterations: every iteration starts
\* with no result and with the ServiceActive check; when the service, active
\* in an earlier iteration, is found inactive, no later stage is evaluated in
\* that iteration and the poller sleeps instead of reporting success; success
\* is reported only on five true checks of the iteration itself.
C28_NoStageCached ==
  /\ [][(pc = "loop" /\ pc' # "timeout") => (pc' = "check_service" /\ iter' = <<>>)]_vars
  /\ [][(pc = "sleep" /\ pc' # pc) => pc' = "loop"]_vars
  /\ [](pc = "check_service" => iter = <<>>)
  /\ [](ServiceRegressed =>
          (Len(iter) = 1 /\ pc \in {"sleep", "loop"} /\ ~PollerSucceeded))
  /\ []((pc = "ready" \/ PollerSucceeded) => AllFiveTrue)

\* The service, active in an earlier iteration, was found inactive.
C28_Witness == ServiceRegressed /\ pc = "sleep" /\ elapsed >= SleepSeconds

\* The step appends a readiness check that was found false.
FalseCheck ==
  /\ Len(iter') = Len(iter) + 1
  /\ IsCheck(iter'[Len(iter')])
  /\ ~iter'[Len(iter')].ok

\* C29: the timeout is the only failure path of the poller: a false or
\* non-zero result of a readiness check leaves the error unset and leads to the
\* sleep, and the sleep to the next iteration; the poller fails only by the
\* throw of the timeout branch, with the timeout error, after the diagnostics
\* have been dumped.
C29_TimeoutOnlyFailure ==
  /\ [][(pc \in BodyPcs /\ FalseCheck) => (pc' = "sleep" /\ error' = "none")]_vars
  /\ [][(pc = "sleep" /\ pc' # pc) => (pc' = "loop" /\ error' = "none")]_vars
  /\ [][(pc \in PollerPcs /\ pc' = "failed") =>
          (pc = "throw" /\ error' = "timeout" /\ diagCalls = 1)]_vars
  /\ [](pc \in PollerPcs => error = "none")
  /\ [](pc = "throw" => diagCalls = 1)

\* The poller has timed out after an iteration in which the service was active
\* and a later check was false.
C29_Witness ==
  pc = "failed" /\ error = "timeout" /\ diagCalls = 1 /\ everActive /\ now > SleepSeconds

DiagnosticsFailed == Issued("diag_nonzero") \/ Issued("diag_warning")

\* C30: a failure while gathering the diagnostics is soft: whatever the
\* diagnostics commands do, the dump is followed by the throw of the timeout
\* branch and the poller fails with the timeout error; a rejected call is
\* logged as a warning and sets no error of its own.
C30_DiagnosticsSoft ==
  /\ [][pc = "timeout" =>
          (pc' = "throw" /\ error' = "none" /\ failedCmd' = failedCmd)]_vars
  /\ [][pc = "throw" => (pc' = "failed" /\ error' = "timeout")]_vars
  /\ []((DiagnosticsFailed /\ pc = "failed") => error = "timeout")
  /\ [](DiagnosticsFailed => pc \in {"throw", "failed"})

\* The poller has failed with the timeout error after a rejected call of the
\* diagnostics.
C30_Witness == pc = "failed" /\ error = "timeout" /\ Issued("diag_warning")

\* C31: when wait-for-ready is not enabled, setup returns right after the
\* service was installed and started: the step after the publication of the
\* outputs is the end of setup, the poller is never entered, no readiness
\* check is evaluated, no diagnostics are dumped and no timeout error occurs.
C31_NoWaitNoPoller ==
  /\ [][(pc = "publish" /\ ~waitForReady) => pc' = "done"]_vars
  /\ [](~waitForReady =>
          /\ pc \notin PollerPcs
          /\ iter = <<>> /\ elapsed = -1 /\ ~everActive
          /\ diagCalls = 0
          /\ error # "timeout")
  /\ []((pc = "done" /\ ~waitForReady) => (svc.started /\ Issued("start")))

\* Setup has returned without waiting, the service started.
C31_Witness ==
  pc = "done" /\ ~waitForReady /\ svc.started /\ outputs = Published /\ iter = <<>>

ChmodAttempted == \E i \in 1..Len(iter) : iter[i].stage = "Chmod644"

\* C32: in every iteration in which the credential file is found present, the
\* chmod 644 of it is run (its exit code is ignored) before the API check: the
\* API check of an iteration comes right after the chmod, the chmod right
\* after a true credential-file check, and a poller that returns success has
\* run the chmod in its last iteration.
C32_ChmodBeforeApiCheck ==
  /\ \A i \in 1..Len(iter) :
       /\ iter[i].stage = "ApiReachable" => (i > 1 /\ iter[i - 1].stage = "Chmod644")
       /\ iter[i].stage = "Chmod644" =>
            (i > 1 /\ iter[i - 1].stage = "CredentialFilePresent" /\ iter[i - 1].ok)
       /\ (iter[i].stage = "CredentialFilePresent" /\ iter[i].ok) =>
            IF i = Len(iter) THEN pc = "chmod" ELSE iter[i + 1].stage = "Chmod644"
  /\ pc = "check_api" => (iter # <<>> /\ iter[Len(iter)].stage = "Chmod644")
  /\ (pc = "ready" \/ PollerSucceeded) => ChmodAttempted

\* The poller has returned success in a later iteration, the chmod run in it.
C32_Witness ==
  PollerSucceeded /\ ChmodAttempted /\ Len(iter) = Len(Stages) + 1 /\ elapsed >= SleepSeconds

\* The commands cleanup() can issue at most.
CleanupCommands == Len(StopChain) + Len(RestoreChain) + Len(ServicesChain)

\* C33: cleanup never blocks forever: once started it ends, whatever its
\* commands return, after at most one pass over its three command lists; and
\* when the service is still running after the kill and the wait, the file
\* removal is run all the same, and so are the later steps.
C33_CleanupTerminates ==
  /\ (pc \in PostPcs) ~> (pc = "post_done")
  /\ [](pc \in PostPcs => (Len(issued) <= CleanupCommands /\ step <= CleanupCommands))
  /\ []((pc = "post_done" /\ postResult = "ok") =>
          /\ Count("rm_path") = Len(FilesToRemove)
          /\ Count("unmask") = Len(ServiceOrder))
  /\ [][(pc = "post_done") => (pc' = "post_done")]_vars

\* Cleanup has ended with the service still running: the removals were run.
C33_Witness ==
  /\ pc = "post_done" /\ postResult = "ok" /\ svc.started
  /\ Count("rm_path") = Len(FilesToRemove) /\ UnitFile \notin files

\* C34: the poller, once started, ends: in success, or, when the cluster
\* never becomes ready, in the timeout error, for every timeout value that
\* main passes to it, the value parsed from a non-numeric input included.
C34_PollerEndsForEveryTimeout ==
  (pc = "loop") ~> (pc = "ready" \/ PollerSucceeded \/ (pc = "failed" /\ error = "timeout"))

\* C35: after a cleanup that ran to its end, the kubesolo service is not
\* running, whatever state it was in when cleanup began.
C35_ServiceStoppedAfterCleanup ==
  (pc = "post_done" /\ postResult = "ok") => ~svc.started

\* The step issues the command at the current position of the chain.
IssuesFrom(chain, name) ==
  /\ step \in 1..Len(chain)
  /\ chain[step].name = name
  /\ issued' = Append(issued, name)

\* C36: the backup and the restore never destroy a file: the rename of a
\* binary onto its .bak path is issued only when that path is absent, and the
\* move of a backup onto the original path only when the original is absent.
C36_NoFileOverwritten ==
  /\ [][(pc = "disable" /\ IssuesFrom(DisableChain(variant), "backup")) =>
          DisableChain(variant)[step].arg \notin bakPresent]_vars
  /\ [][(pc = "restoreContainerRuntimes" /\ IssuesFrom(RestoreChain, "restore")) =>
          RestoreChain[step].arg \notin binPresent]_vars

\* The DNS readiness check has started.
DnsStarted ==
  /\ variant = "dns"
  /\ \/ pc \in {"coredns", "dns_run", "dns_wait", "nslookup", "dns_ok", "dns_not_ok"}
     \/ Issued("coredns_ready") \/ Issued("coredns_waiting")

\* C37 as claimed: the DNS readiness check starts only after the readiness
\* loop has seen the node Ready.
C37_DnsOnlyAfterNodeReady == DnsStarted => (waitForReady /\ AllFiveTrue)

\* C37, amended: with wait-for-ready enabled the DNS readiness check starts
\* only after the readiness loop has seen the node Ready, and never after its
\* timeout; with wait-for-ready disabled the loop is skipped and the check
\* starts without it.
C37_DnsAfterLoopWhenWaiting ==
  /\ (DnsStarted /\ waitForReady) => AllFiveTrue
  /\ DnsStarted => (error # "timeout" /\ diagCalls = 0)
  /\ (variant = "dns" /\ error = "timeout") => (pc = "failed" /\ issued = <<>>)
  /\ (DnsStarted /\ ~waitForReady) => iter = <<>>

\* The DNS lookup is running after a readiness loop that saw the node Ready.
C37_Witness == pc = "nslookup" /\ waitForReady /\ AllFiveTrue /\ Issued("dns_wait")

====
